---- MODULE Spec2Model ----
(***************************************************************************)
(* Model of the recommendation pipeline of app/service.py:                 *)
(*   NaverAPIClient        (_clean_html, search_places, fetch_blog_context)*)
(*   ContentAnalyzer       (analyze_restaurant)                            *)
(*   RecommendationService (create_recommendations,                        *)
(*                          create_recommendations_v2)                     *)
(*   get_personalized_recommendation and the HTTP handler of app/main.py.  *)
(*                                                                         *)
(* Text is a sequence of characters.  A character is a one-element string; *)
(* a Hangul syllable is written as its romanisation ("gwang","go" for the  *)
(* two syllables of the ad keyword of service.py line 71).                 *)
(* A JSON value is a record [t |-> tag, v |-> payload]; a dictionary key   *)
(* that is not present carries the tag "absent".                           *)
(***************************************************************************)
EXTENDS Integers, Sequences, FiniteSets, TLC

VARIABLES
    pc,            \* position of the request in the handler
    entry,         \* which operation serves the request
    prompt,        \* request.prompt
    language,      \* request.language
    client,        \* ContentAnalyzer.client is not None
    search_query,  \* local search_query of create_recommendations_v2
    places,        \* value returned by search_places
    idx,           \* 1-based position of the loop over places[:3]
    ko_name,       \* name / ko_name of the candidate being processed
    ko_addr,       \* addr / ko_addr of the candidate being processed
    blog_resp,     \* what the blog provider answered to the last fetch
    blog_results,  \* value returned by fetch_blog_context
    ctx_in,        \* context handed to analyze_restaurant by the last call
    analysis,      \* value returned by analyze_restaurant
    display_name,  \* display_name of create_recommendations_v2
    display_addr,  \* display_addr of create_recommendations_v2
    final_list,    \* final_list
    result,        \* what the operation returned or raised
    calls          \* external calls issued so far, in order

vars == <<pc, entry, prompt, language, client, search_query, places, idx,
          ko_name, ko_addr, blog_resp, blog_results, ctx_in, analysis,
          display_name, display_addr, final_list, result, calls>>

-----------------------------------------------------------------------------
(* Bounds of the model *)

MaxPlaces == 4
MaxUnitBlogItems == 3
MaxCtxLen == 11

-----------------------------------------------------------------------------
(* JSON values *)

JStr(s) == [t |-> "str", v |-> s]
JList(l) == [t |-> "list", v |-> l]
JNull == [t |-> "null", v |-> <<>>]
JNum == [t |-> "num", v |-> <<>>]
JAbsent == [t |-> "absent", v |-> <<>>]

Min(a, b) == IF a < b THEN a ELSE b

-----------------------------------------------------------------------------
(* Text helpers: Python str operations used by the code *)

\* k in s  (substring test, service.py line 80)
IsSubstr(k, s) ==
    \E i \in 0..(Len(s) - Len(k)) :
        \A j \in 1..Len(k) : s[i + j] = k[j]

\* " ".join(xs)  (service.py line 90)
RECURSIVE JoinSpace(_)
JoinSpace(xs) ==
    IF Len(xs) = 0 THEN <<>>
    ELSE IF Len(xs) = 1 THEN xs[1]
    ELSE xs[1] \o <<" ">> \o JoinSpace(Tail(xs))

IsSpace(c) == c \in {" ", "\n"}

\* s.strip()
RECURSIVE LStrip(_)
LStrip(s) ==
    IF Len(s) > 0 /\ IsSpace(s[1]) THEN LStrip(Tail(s)) ELSE s

RECURSIVE RStrip(_)
RStrip(s) ==
    IF Len(s) > 0 /\ IsSpace(s[Len(s)]) THEN RStrip(SubSeq(s, 1, Len(s) - 1)) ELSE s

Strip(s) == RStrip(LStrip(s))

\* s.replace(c, "") for a one-character c
RemoveChar(s, c) == SelectSeq(s, LAMBDA x : x # c)

\* s[:n]
Prefix(s, n) == SubSeq(s, 1, Min(n, Len(s)))

-----------------------------------------------------------------------------
(* NaverAPIClient._clean_html: re.sub(r"<.*?>", "", raw_html)              *)

\* position of the first ">" after position i that "." can reach (no line
\* break in between), or 0
RECURSIVE TagClose(_, _)
TagClose(s, j) ==
    IF j > Len(s) THEN 0
    ELSE IF s[j] = ">" THEN j
    ELSE IF s[j] = "\n" THEN 0
    ELSE TagClose(s, j + 1)

RECURSIVE ReSubTags(_, _)
ReSubTags(s, i) ==
    IF i > Len(s) THEN <<>>
    ELSE IF s[i] = "<" /\ TagClose(s, i + 1) # 0
         THEN ReSubTags(s, TagClose(s, i + 1) + 1)
    ELSE <<s[i]>> \o ReSubTags(s, i + 1)

\* applied to a text
_clean_html(raw_html) == ReSubTags(raw_html, 1)

-----------------------------------------------------------------------------
(* NaverAPIClient.fetch_blog_context                                       *)

\* ad_keywords, in source order (the first entry is repeated at line 67)
ad_keywords ==
    << <<"won", "go", "ryo">>,
       <<"ji", "won">>,
       <<"che", "heom", "dan">>,
       <<"hyeop", "chan">>,
       <<"seo", "bi", "seu">>,
       <<"won", "go", "ryo">>,
       <<"eop", "che">>,
       <<"po", "seu", "ting">>,
       <<"je", "jak", "bi">>,
       <<"gwang", "go">>,
       <<"ri", "byu", " ", "i", "ben", "teu">>,
       <<"hong", "bo">>,
       <<"peu", "ro", "mo", "syeon">> >>

\* A blog item is [t |-> "dict", description |-> JSON value] or, when the
\* provider sent something that is no object, [t |-> "other", ...].

\* i.get("description", ""): the default only replaces a key that is absent
GetDescription(i) ==
    IF i.description.t = "absent" THEN JStr(<<>>) ELSE i.description

\* Whether self._clean_html(i.get("description", "")) raises: i is no dict
\* (no .get), or the description is a truthy value re.sub cannot take.
ItemRaises(i) == i.t # "dict" \/ GetDescription(i).t = "num"

\* self._clean_html(i.get("description", "")); "" for a falsy raw_html
CleanDescription(i) ==
    LET d == GetDescription(i)
    IN  IF d.t = "str" /\ Len(d.v) > 0 THEN _clean_html(d.v) ELSE <<>>

\* any(key in text for key in ad_keywords)
HasAdKeyword(text) ==
    \E k \in 1..Len(ad_keywords) : IsSubstr(ad_keywords[k], text)

KeepItem(i) == ~HasAdKeyword(CleanDescription(i))

\* the list comprehension of lines 76-83
RECURSIVE FilteredItems(_)
FilteredItems(items) ==
    IF Len(items) = 0 THEN <<>>
    ELSE IF KeepItem(items[1])
         THEN <<CleanDescription(items[1])>> \o FilteredItems(Tail(items))
    ELSE FilteredItems(Tail(items))

\* line 92 (variant: -1 as the count of a failed fetch)
BlogFallback_mut == [context |-> <<>>, removed_count |-> -1]
BlogFallback == [context |-> <<>>, removed_count |-> 0]

\* resp: [kind |-> "error"] when requests.get or resp.json() raises,
\*       [kind |-> "json", items |-> JSON value of the key "items"] otherwise.
BlogRaises(resp) ==
    \/ resp.kind = "error"
    \/ resp.items.t \notin {"absent", "list"}
    \/ /\ resp.items.t = "list"
       /\ \E n \in 1..Len(resp.items.v) : ItemRaises(resp.items.v[n])

\* resp.json().get("items", [])
BlogItems(resp) == IF resp.items.t = "absent" THEN <<>> ELSE resp.items.v

RemovedCount(total_count, filtered_items) == total_count - Len(filtered_items)

fetch_blog_context(resp) ==
    IF BlogRaises(resp) THEN BlogFallback
    ELSE LET items == BlogItems(resp)
             total_count == Len(items)
             filtered_items == FilteredItems(items)
         IN  [context |-> JoinSpace(filtered_items),
              removed_count |-> RemovedCount(total_count, filtered_items)]

-----------------------------------------------------------------------------
(* ContentAnalyzer.analyze_restaurant                                      *)

\* The value analyze_restaurant returns: [t |-> "dict", summary, pros, cons]
\* for a JSON object (a key that is missing is "absent"), or another tag
\* when json.loads produced something that is no object.
Summary(s, p, c) == [t |-> "dict", summary |-> s, pros |-> p, cons |-> c]

PopularSuffix ==
    <<"eun", " ", "in", "gi", " ", "mat", "jip", "ip", "ni", "da", ".">>
LackingSuffix ==
    <<"eun", " ", "ri", "byu", " ", "jeong", "bo", "ga", " ", "bu", "jok",
      "han", " ", "in", "gi", " ", "mat", "jip", "ip", "ni", "da", ".">>

\* lines 116-120
NoClientFallback(name) ==
    Summary(JStr(name \o PopularSuffix),
            JList(<< <<"mat">> >>),
            JList(<< <<"dae", "gi">> >>))

\* lines 124-128
ShortContextFallback(name) ==
    Summary(JStr(name \o LackingSuffix),
            JList(<< <<"jeop", "geun", "seong">> >>),
            JList(<< <<"ri", "byu", " ", "bu", "jok">> >>))

\* lines 158-162
ErrorFallback(name) ==
    Summary(JStr(name \o PopularSuffix),
            JList(<< <<"mat">>, <<"bun", "wi", "gi">> >>),
            JList(<< <<"dae", "gi", " ", "si", "gan">> >>))

MinContextLen == 10
MaxContextLen == 2000

\* not context or len(context.strip()) < 10
\* (variant: only "not context", the length test left out)
ContextTooShort_mut(context) == Len(context) = 0
ContextTooShort(context) ==
    Len(context) = 0 \/ Len(Strip(context)) < MinContextLen

\* context[:2000].strip()
RichContext(context) == Strip(Prefix(context, MaxContextLen))

\* "English" if language == "en" else "Korean"
TargetLang(lang) == IF lang = "en" THEN "English" ELSE "Korean"

\* the text of the request of lines 135-149: the language of the system
\* message, then the reviews of the user message
ModelRequest(lang, context) == <<TargetLang(lang)>> \o RichContext(context)

\* Whether the chat-completion request of lines 135-149 is issued
CallsModel(has_client, context) == has_client /\ ~ContextTooShort(context)

\* outcome of the model call:
\*   [kind |-> "error"]      the request raises (network, timeout, API error)
\*   [kind |-> "nochoice"]   choices is empty or content is None
\*   [kind |-> "unparsable"] json.loads(content) raises
\*   [kind |-> "json", value |-> the value json.loads(content) returns]
ModelReturn(name, outcome) ==
    IF outcome.kind = "json" THEN outcome.value ELSE ErrorFallback(name)

analyze_restaurant(has_client, name, context, outcome) ==
    IF ~has_client THEN NoClientFallback(name)
    ELSE IF ContextTooShort(context) THEN ShortContextFallback(name)
    ELSE ModelReturn(name, outcome)

-----------------------------------------------------------------------------
(* NaverAPIClient.search_places                                            *)

\* outcome: [kind |-> "error"] when requests.get or resp.json() raises,
\*          [kind |-> "json", items |-> JSON value of the key "items"].
\* resp.json().get("items", []) inside try / except: return []
search_places(outcome) ==
    IF outcome.kind = "error" THEN JList(<<>>)
    ELSE IF outcome.items.t = "absent" THEN JList(<<>>)
    ELSE outcome.items

\* not places
\* (variant: the empty-result test left out)
NoPlaces_mut(p) == FALSE
NoPlaces(p) == p.t = "null" \/ (p.t = "list" /\ Len(p.v) = 0)

TopN == 3

\* places[:3]
TopPlaces(p) == Prefix(p.v, TopN)

\* A place is [t, title, roadAddress, address, mapx, mapy]; t = "dict" for a
\* JSON object, every other field a JSON value ("absent": no such key).

\* Whether self.naver_client._clean_html(item["title"]) raises, and what
TitleError(item) ==
    IF item.t # "dict" THEN "TypeError"
    ELSE IF item.title.t = "absent" THEN "KeyError"
    ELSE IF item.title.t \notin {"str", "null"} THEN "TypeError"
    ELSE ""

CleanTitle(item) ==
    IF item.title.t = "str" /\ Len(item.title.v) > 0
    THEN _clean_html(item.title.v) ELSE <<>>

\* item.get("roadAddress") or item.get("address", "")
Truthy(j) == j.t = "str" /\ Len(j.v) > 0
PlaceAddr(item) ==
    IF Truthy(item.roadAddress) THEN item.roadAddress.v
    ELSE IF item.address.t = "absent" THEN <<>>
    ELSE item.address.v

\* item.get(key): None for a key that is absent
DictGet(j) == IF j.t = "absent" THEN JNull ELSE j

-----------------------------------------------------------------------------
(* Fixed texts of RecommendationService                                    *)

NoResultsAnswer ==
    <<"geom", "saek", " ", "gyeol", "gwa", "ga", " ", "eops", "seup", "ni",
      "da", ".">>

\* f"Search: '{prompt}'"
AnswerV2(p) ==
    <<"S", "e", "a", "r", "c", "h", ":", " ", "'">> \o p \o <<"'">>

\* f"'{prompt}' ... " (line 311)
AnswerV1(p) ==
    <<"'">> \o p \o
    <<"'", " ", "ji", "yeok", "ui", " ", "chu", "cheon", " ", "gyeol", "gwa",
      "ip", "ni", "da", ".">>

\* f"{name} {address} ..." (line 54)
BlogQuery(name, address) ==
    name \o <<" ">> \o address \o <<" ", "mat", "jip", " ", "hu", "gi">>

\* f"{ko_name} ({display_name})"
Composite(native, shown) == native \o <<" ", "(">> \o shown \o <<")">>

Keywords == << <<"mat", "jip">>, <<"chu", "cheon">> >>

IsV2 == entry = "create_recommendations_v2"
Adapts == IsV2 /\ language = "en"

-----------------------------------------------------------------------------
(* Step 0 of create_recommendations_v2: keyword optimisation               *)

\* outcome: [kind |-> "noclient"]  self.analyzer.client is None
\*          [kind |-> "error"]     the request raises
\*          [kind |-> "nochoice"]  no choice, or content is None
\*          [kind |-> "content", content |-> text]
\* (variant: the clean-up of lines 196-198 applied after the try block)
OptimizedQuery_mut(p, outcome) ==
    IF outcome.kind = "content"
    THEN RemoveChar(RemoveChar(Strip(outcome.content), "\""), "'")
    ELSE RemoveChar(RemoveChar(Strip(p), "\""), "'")
OptimizedQuery(p, outcome) ==
    IF outcome.kind = "content"
    THEN RemoveChar(RemoveChar(Strip(outcome.content), "\""), "'")
    ELSE p

(* Step 5: display translation                                             *)
\* outcome: [kind |-> "noclient" | "error" | "nochoice" | "unparsable"],
\*          [kind |-> "json", value |-> [t, name, address]]
TransOk(outcome) == outcome.kind = "json" /\ outcome.value.t = "dict"

\* Whether the translation changed nothing: the call failed or named no field
TransUseless(outcome) ==
    ~TransOk(outcome) \/ "str" \notin {outcome.value.name.t, outcome.value.address.t}

\* f"Name: {ko_name}\nAddress: {ko_addr}"
TransRequest(name, addr) == name \o <<"\n">> \o addr

\* trans_data.get("name", ko_name)
DisplayName(native, outcome) ==
    IF TransOk(outcome) /\ outcome.value.name.t = "str"
    THEN outcome.value.name.v ELSE native

\* trans_data.get("address", ko_addr)
DisplayAddr(native, outcome) ==
    IF TransOk(outcome) /\ outcome.value.address.t = "str"
    THEN outcome.value.address.v ELSE native

-----------------------------------------------------------------------------
(* Inputs: requests and the answers of the external services               *)

Prompts == { <<"gang", "nam">>, <<" ", "'", "s", "u", "'">> }
Languages == {"ko", "en"}
Entries == {"get_personalized_recommendation", "create_recommendations_v2"}

Place(title, road, addr, x, y) ==
    [t |-> "dict", title |-> title, roadAddress |-> road, address |-> addr,
     mapx |-> x, mapy |-> y]

PlaceA ==
    Place(JStr(<<"<", "b", ">", "A", "<", "/", "b", ">">>), JStr(<<"R", "1">>),
          JStr(<<"J", "1">>), JStr(<<"1">>), JStr(<<"2">>))
PlaceB ==
    Place(JStr(<<"B">>), JStr(<<>>), JStr(<<"J", "2">>), JStr(<<"3">>), JAbsent)
PlaceNoTitle ==
    Place(JAbsent, JAbsent, JAbsent, JAbsent, JAbsent)

PlacePool == {PlaceA, PlaceB, PlaceNoTitle}

SeqsUpTo(S, n) == UNION {[1..k -> S] : k \in 0..n}

SearchOutcomes ==
    {[kind |-> "error", items |-> JAbsent],
     [kind |-> "json", items |-> JAbsent],
     [kind |-> "json", items |-> JNull]}
    \cup {[kind |-> "json", items |-> JList(l)] : l \in SeqsUpTo(PlacePool, MaxPlaces)}

BlogItem(d) == [t |-> "dict", description |-> d]

LongReview ==
    <<"<", "b", ">", "jo", "eun", "<", "/", "b", ">", " ", "mat", "jip", " ",
      "chu", "cheon", "ham", "ni", "da">>
AdReview == <<"hyeop", "chan", " ", "<", "i", ">", "gwang", "<", "/", "i", ">", "go">>

BlogResponses ==
    {[kind |-> "error", items |-> JAbsent],
     [kind |-> "json",
      items |-> JList(<<BlogItem(JStr(LongReview)), BlogItem(JStr(AdReview))>>)]}

GoodSummary ==
    Summary(JStr(<<"g", "o", "o", "d">>), JList(<< <<"p">> >>), JList(<<>>))

ModelOutcomes ==
    {[kind |-> "error", value |-> JNull],
     [kind |-> "json", value |-> GoodSummary],
     [kind |-> "json", value |-> Summary(JAbsent, JList(<<>>), JList(<<>>))]}

OptOutcomes ==
    {[kind |-> "error", content |-> <<>>],
     [kind |-> "nochoice", content |-> <<>>],
     [kind |-> "content", content |-> <<" ", "\"", "gang", "nam", "\"", "'">>]}

Translation(n, a) == [t |-> "dict", name |-> n, address |-> a]

TransOutcomes ==
    {[kind |-> "error", value |-> JNull],
     [kind |-> "unparsable", value |-> JNull],
     [kind |-> "json", value |-> [t |-> "list", name |-> JAbsent, address |-> JAbsent]],
     [kind |-> "json", value |-> Translation(JStr(<<"E", "n">>), JStr(<<"S", "t">>))],
     [kind |-> "json", value |-> Translation(JAbsent, JAbsent)]}

NoClient == [kind |-> "noclient", value |-> JNull, content |-> <<>>]

-----------------------------------------------------------------------------
(* The request as a state machine                                          *)

Pending == [status |-> "pending", answer |-> <<>>, restaurants |-> <<>>, error |-> ""]
Returned(a, r) == [status |-> "returned", answer |-> a, restaurants |-> r, error |-> ""]
Raised(e) == [status |-> "raised", answer |-> <<>>, restaurants |-> <<>>, error |-> e]

Call(op, arg, ok) == [op |-> op, arg |-> arg, ok |-> ok]

NoBlogResp == [kind |-> "none", items |-> JAbsent]

Init ==
    /\ entry \in Entries
    /\ prompt \in Prompts
    /\ language \in Languages
    /\ client \in BOOLEAN
    /\ search_query = prompt
    /\ pc = IF Adapts THEN "optimize" ELSE "search"
    /\ places = JList(<<>>)
    /\ idx = 1
    /\ ko_name = <<>>
    /\ ko_addr = <<>>
    /\ blog_resp = NoBlogResp
    /\ blog_results = BlogFallback
    /\ ctx_in = <<>>
    /\ analysis = JNull
    /\ display_name = <<>>
    /\ display_addr = <<>>
    /\ final_list = <<>>
    /\ result = Pending
    /\ calls = <<>>

\* lines 179-201
Optimize ==
    /\ pc = "optimize"
    /\ \E outcome \in (IF client THEN OptOutcomes ELSE {NoClient}) :
          /\ search_query' = OptimizedQuery(prompt, outcome)
          /\ calls' = IF client
                      THEN Append(calls, Call("optimize", prompt, outcome.kind = "content"))
                      ELSE calls
    /\ pc' = "search"
    /\ UNCHANGED <<entry, prompt, language, client, places, idx, ko_name, ko_addr,
                   blog_resp, blog_results, ctx_in, analysis, display_name,
                   display_addr, final_list, result>>

\* lines 204-208 and 277-281: the search, the test of its result, places[:3]
Search ==
    /\ pc = "search"
    /\ \E outcome \in SearchOutcomes :
          /\ places' = search_places(outcome)
          /\ calls' = Append(calls, Call("search_places", search_query,
                                         outcome.kind = "json"))
    /\ IF NoPlaces(places')
       THEN pc' = "done" /\ result' = Returned(NoResultsAnswer, <<>>)
       ELSE pc' = "loop" /\ result' = result
    /\ UNCHANGED <<entry, prompt, language, client, search_query, idx, ko_name,
                   ko_addr, blog_resp, blog_results, ctx_in, analysis,
                   display_name, display_addr, final_list>>

\* the calls fetch_blog_context issues for one candidate ("call it exactly
\* once and keep the result", line 286; variant: fetched a second time)
FetchCalls_mut(name, addr, ok) ==
    <<Call("fetch_blog_context", BlogQuery(name, addr), ok),
      Call("fetch_blog_context", BlogQuery(name, addr), ok)>>
FetchCalls(name, addr, ok) ==
    <<Call("fetch_blog_context", BlogQuery(name, addr), ok)>>

\* lines 211-215 and 283-287: the candidate's name and address, its reviews
Fetch ==
    /\ pc = "loop"
    /\ idx <= Len(TopPlaces(places))
    /\ LET item == TopPlaces(places)[idx]
       IN  IF TitleError(item) # ""
           THEN /\ pc' = "raised"
                /\ result' = Raised(TitleError(item))
                /\ UNCHANGED <<ko_name, ko_addr, blog_resp, blog_results, calls>>
           ELSE /\ ko_name' = CleanTitle(item)
                /\ ko_addr' = PlaceAddr(item)
                /\ \E resp \in BlogResponses :
                      /\ blog_resp' = resp
                      /\ blog_results' = fetch_blog_context(resp)
                      /\ calls' = calls \o FetchCalls(ko_name', ko_addr', ~BlogRaises(resp))
                /\ pc' = "analyze"
                /\ result' = result
    /\ UNCHANGED <<entry, prompt, language, client, search_query, places, idx,
                   ctx_in, analysis, display_name, display_addr, final_list>>

\* language=language at line 219; the default "ko" at line 290
AnalyzeLang == IF IsV2 THEN language ELSE "ko"

\* lines 218-224 and 290
Analyze ==
    /\ pc = "analyze"
    /\ ctx_in' = blog_results.context
    /\ LET called == CallsModel(client, blog_results.context)
       IN  \E outcome \in (IF called THEN ModelOutcomes ELSE {NoClient}) :
              /\ analysis' = analyze_restaurant(client, ko_name, blog_results.context, outcome)
              /\ calls' = IF called
                          THEN Append(calls, Call("analyze_restaurant",
                                                  ModelRequest(AnalyzeLang, blog_results.context),
                                                  outcome.kind = "json"))
                          ELSE calls
    /\ display_name' = ko_name
    /\ display_addr' = ko_addr
    /\ pc' = IF Adapts THEN "translate" ELSE "append"
    /\ UNCHANGED <<entry, prompt, language, client, search_query, places, idx,
                   ko_name, ko_addr, blog_resp, blog_results, final_list, result>>

\* lines 227-248
Translate ==
    /\ pc = "translate"
    /\ \E outcome \in (IF client THEN TransOutcomes ELSE {NoClient}) :
          /\ display_name' = DisplayName(ko_name, outcome)
          /\ display_addr' = DisplayAddr(ko_addr, outcome)
          /\ calls' = IF client
                      THEN Append(calls, Call("translate", TransRequest(ko_name, ko_addr),
                                              ~TransUseless(outcome)))
                      ELSE calls
    /\ pc' = "append"
    /\ UNCHANGED <<entry, prompt, language, client, search_query, places, idx,
                   ko_name, ko_addr, blog_resp, blog_results, ctx_in, analysis,
                   final_list, result>>

\* Whether analysis["summary"], analysis["pros"], analysis["cons"] raise
SubscriptError(a) ==
    IF a.t # "dict" THEN "TypeError"
    ELSE IF "absent" \in {a.summary.t, a.pros.t, a.cons.t} THEN "KeyError"
    ELSE ""

ItemName(native, shown) == IF IsV2 THEN Composite(native, shown) ELSE native

\* the dictionary of lines 251-264 and 293-306
Assemble(item) ==
    [name |-> ItemName(ko_name, display_name),
     address |-> display_addr,
     summary |-> analysis.summary,
     summary_pros |-> analysis.pros,
     summary_cons |-> analysis.cons,
     is_ad_filtered |-> TRUE,
     filtered_ad_count |-> blog_results.removed_count,
     mapx |-> DictGet(item.mapx),
     mapy |-> DictGet(item.mapy),
     keywords |-> Keywords]

\* final_list.append(...), lines 250-265 and 292-307
AppendItem ==
    /\ pc = "append"
    /\ IF SubscriptError(analysis) # ""
       THEN /\ pc' = "raised"
            /\ result' = Raised(SubscriptError(analysis))
            /\ UNCHANGED <<final_list, idx>>
       ELSE /\ final_list' = Append(final_list, Assemble(TopPlaces(places)[idx]))
            /\ idx' = idx + 1
            /\ pc' = "loop"
            /\ result' = result
    /\ UNCHANGED <<entry, prompt, language, client, search_query, places, ko_name,
                   ko_addr, blog_resp, blog_results, ctx_in, analysis,
                   display_name, display_addr, calls>>

\* lines 267-271 and 309-313
Return ==
    /\ pc = "loop"
    /\ idx > Len(TopPlaces(places))
    /\ result' = Returned(IF IsV2 THEN AnswerV2(prompt) ELSE AnswerV1(prompt), final_list)
    /\ pc' = "done"
    /\ UNCHANGED <<entry, prompt, language, client, search_query, places, idx,
                   ko_name, ko_addr, blog_resp, blog_results, ctx_in, analysis,
                   display_name, display_addr, final_list, calls>>

Next == Optimize \/ Search \/ Fetch \/ Analyze \/ Translate \/ AppendItem \/ Return

Spec == Init /\ [][Next]_vars

-----------------------------------------------------------------------------
(* fetch_blog_context on its own, over every answer of the blog provider   *)

Descriptions ==
    { <<>>,
      <<"mat", "it", "da">>,
      <<"gwang", "go">>,
      <<"<", "b", ">", "gwang", "<", "/", "b", ">", "go">>,
      <<"<", "gwang", "go", ">", "mat">>,
      <<"ji", "<", "won">>,
      <<"ri", "byu">>,
      <<"i", "ben", "teu">>,
      <<"ri", "byu", " ", "i", "ben", "teu">>,
      <<"hong", "\n", "bo", " ", "<", "\n", ">">> }

UnitBlogItems ==
    {BlogItem(JStr(d)) : d \in Descriptions}
    \cup {BlogItem(JAbsent), BlogItem(JNull), BlogItem(JNum),
          [t |-> "other", description |-> JAbsent]}

UnitBlogResponses ==
    {[kind |-> "error", items |-> JAbsent],
     [kind |-> "json", items |-> JAbsent],
     [kind |-> "json", items |-> JNull]}
    \cup {[kind |-> "json", items |-> JList(l)] :
             l \in SeqsUpTo(UnitBlogItems, MaxUnitBlogItems)}

Idle ==
    /\ entry = "unit"
    /\ prompt = <<>>
    /\ search_query = <<>>
    /\ places = JList(<<>>)
    /\ idx = 1
    /\ ko_addr = <<>>
    /\ display_name = <<>>
    /\ display_addr = <<>>
    /\ final_list = <<>>
    /\ result = Pending
    /\ calls = <<>>

InitBlog ==
    /\ Idle
    /\ pc = "unit_blog"
    /\ language = "ko"
    /\ client = TRUE
    /\ ko_name = <<>>
    /\ blog_resp \in UnitBlogResponses
    /\ blog_results = BlogFallback
    /\ ctx_in = <<>>
    /\ analysis = JNull

UnitFetch ==
    /\ pc = "unit_blog"
    /\ blog_results' = fetch_blog_context(blog_resp)
    /\ pc' = "unit_done"
    /\ UNCHANGED <<entry, prompt, language, client, search_query, places, idx,
                   ko_name, ko_addr, blog_resp, ctx_in, analysis, display_name,
                   display_addr, final_list, result, calls>>

SpecBlog == InitBlog /\ [][UnitFetch]_vars

-----------------------------------------------------------------------------
(* analyze_restaurant on its own, over every context up to MaxCtxLen       *)

UnitModelOutcomes ==
    {[kind |-> "error", value |-> JNull],
     [kind |-> "nochoice", value |-> JNull],
     [kind |-> "unparsable", value |-> JNull],
     [kind |-> "json", value |-> GoodSummary],
     [kind |-> "json", value |-> Summary(JAbsent, JList(<<>>), JList(<<>>))],
     [kind |-> "json", value |-> Summary(JStr(<<>>), JList(<<>>), JList(<<>>))],
     [kind |-> "json", value |-> Summary(JStr(<<"o", "k">>), JStr(<<"p">>), JNull)],
     [kind |-> "json",
      value |-> [t |-> "list", summary |-> JAbsent, pros |-> JAbsent, cons |-> JAbsent]]}

InitAnalyze ==
    /\ Idle
    /\ pc = "unit_analyze"
    /\ language \in Languages
    /\ client \in BOOLEAN
    /\ ko_name \in {<<>>, <<"A">>}
    /\ blog_resp = NoBlogResp
    /\ blog_results = BlogFallback
    /\ ctx_in \in SeqsUpTo({" ", "x"}, MaxCtxLen)
    /\ analysis = JNull

UnitAnalyze ==
    /\ pc = "unit_analyze"
    /\ LET called == CallsModel(client, ctx_in)
       IN  \E outcome \in (IF called THEN UnitModelOutcomes ELSE {NoClient}) :
              /\ analysis' = analyze_restaurant(client, ko_name, ctx_in, outcome)
              /\ calls' = IF called
                          THEN Append(calls, Call("analyze_restaurant",
                                                  ModelRequest(language, ctx_in),
                                                  outcome.kind = "json"))
                          ELSE calls
    /\ pc' = "unit_done"
    /\ UNCHANGED <<entry, prompt, language, client, search_query, places, idx,
                   ko_name, ko_addr, blog_resp, blog_results, ctx_in,
                   display_name, display_addr, final_list, result>>

SpecAnalyze == InitAnalyze /\ [][UnitAnalyze]_vars

-----------------------------------------------------------------------------
(* Reading the log of external calls                                       *)

CallsOf(op) == SelectSeq(calls, LAMBDA c : c.op = op)
SearchLog == CallsOf("search_places")
FetchLog == CallsOf("fetch_blog_context")
OptimizeLog == CallsOf("optimize")
Finished == pc \in {"done", "raised"}
NumPlaces == IF places.t = "list" THEN Len(places.v) ELSE 0
Processed == Min(NumPlaces, 3)
NativeName(k) == CleanTitle(places.v[k])

-----------------------------------------------------------------------------
(* C1: the recommendation operation never raises: whenever it has ended it *)
(* has returned a result whose restaurants list holds 0 to 3 items.        *)
C1_NeverRaises ==
    /\ pc # "raised"
    /\ result.status # "raised"
    /\ pc = "done" => /\ result.status = "returned"
                      /\ Len(result.restaurants) <= 3

(* C2: once search_places has returned an empty sequence (the failed       *)
(* search included), the request has ended with the fixed no-results       *)
(* answer and no restaurants, and the search is the last external call:    *)
(* no blog fetch, no summarizer call and no translation call is issued.    *)
C2_EmptySearchEndsRequest ==
    (Len(SearchLog) > 0 /\ (places.t = "null" \/ Len(places.v) = 0)) =>
        /\ pc = "done"
        /\ result = Returned(NoResultsAnswer, <<>>)
        /\ final_list = <<>>
        /\ calls[Len(calls)].op = "search_places"
        /\ \A i \in 1..Len(calls) :
              calls[i].op \notin {"fetch_blog_context", "analyze_restaurant", "translate"}

C2_Witness ==
    /\ pc = "done"
    /\ places = JList(<<>>)
    /\ Len(calls) = 2
    /\ calls[1].op = "optimize"
    /\ calls[2].op = "search_places" /\ ~calls[2].ok
    /\ result.answer = NoResultsAnswer

C3_Kept(items) ==
    LET keep == SelectSeq(items, LAMBDA i : ~HasAdKeyword(CleanDescription(i)))
    IN  [k \in 1..Len(keep) |-> CleanDescription(keep[k])]

(* C3: for every list of well-formed review items, removed_count is        *)
(* total_count - kept_count, the kept items are exactly those whose        *)
(* HTML-stripped description holds no ad keyword, the context is the kept  *)
(* items joined by one space in provider order, and no ad keyword is a     *)
(* substring of the returned context.                                      *)
C3_FilterInvariant ==
    (pc = "unit_done" /\ ~BlogRaises(blog_resp)) =>
        LET items == BlogItems(blog_resp)
            kept == C3_Kept(items)
        IN  /\ blog_results.removed_count = Len(items) - Len(kept)
            /\ blog_results.context = JoinSpace(kept)
            /\ ~HasAdKeyword(blog_results.context)

(* C4: analyze_restaurant always returns a Summary: an object with a       *)
(* non-empty summary string and list-typed pros and cons.                  *)
C4_WellFormedSummary ==
    pc = "unit_done" =>
        /\ analysis.t = "dict"
        /\ analysis.summary.t = "str" /\ Len(analysis.summary.v) > 0
        /\ analysis.pros.t = "list"
        /\ analysis.cons.t = "list"

(* C5 as stated: for a context shorter than 10 characters the summarizer   *)
(* returns the "insufficient review" fallback and does not call the model, *)
(* with or without a model credential.                                     *)
C5_Original ==
    (pc = "unit_done" /\ Len(ctx_in) < 10) =>
        /\ analysis = ShortContextFallback(ko_name)
        /\ calls = <<>>

(* C5 amended: for a context shorter than 10 characters the model is never *)
(* called; the summarizer returns the "insufficient review" fallback when  *)
(* a model credential is configured and the no-credential fallback         *)
(* (summary "popular spot", cons "waiting") when none is.                  *)
C5_ShortContextFallback ==
    (pc = "unit_done" /\ Len(ctx_in) < 10) =>
        /\ calls = <<>>
        /\ client => /\ analysis = ShortContextFallback(ko_name)
                     /\ analysis.summary.v = ko_name \o LackingSuffix
                     /\ analysis.cons.v = << <<"ri", "byu", " ", "bu", "jok">> >>
        /\ ~client => analysis = NoClientFallback(ko_name)

C5_Witness ==
    /\ pc = "unit_done"
    /\ client
    /\ Len(ctx_in) = 9 /\ Len(Strip(ctx_in)) = 9
    /\ analysis = ShortContextFallback(ko_name)
    /\ calls = <<>>

C6_FallbackSummary(name) ==
    IF client THEN ShortContextFallback(name).summary
    ELSE NoClientFallback(name).summary

(* C6: a candidate whose review fetch failed is still assembled into an    *)
(* item, with the deterministic fallback summary and filtered_ad_count 0,  *)
(* and a returned result carries the assembled items; when the fetch       *)
(* failed for every one of the min(n, 3) processed venues (n >= 1), the    *)
(* request returns exactly that many items (2 for two venues).             *)
C6_FetchFailureStillYieldsItem ==
    /\ Len(final_list) <= Len(FetchLog)
    /\ Len(FetchLog) <= Len(final_list) + 1
    \* the candidate in progress is lost only if its own fetch succeeded
    /\ (pc = "raised" /\ Len(FetchLog) > Len(final_list)) => FetchLog[Len(FetchLog)].ok
    /\ \A k \in 1..Len(final_list) :
          ~FetchLog[k].ok =>
              /\ final_list[k].summary = C6_FallbackSummary(NativeName(k))
              /\ final_list[k].filtered_ad_count = 0
    /\ result.status = "returned" => result.restaurants = final_list
    /\ (/\ Finished
        /\ NumPlaces >= 1
        /\ Len(FetchLog) = Processed
        /\ \A k \in 1..Len(FetchLog) : ~FetchLog[k].ok)
       => /\ pc = "done"
          /\ Len(result.restaurants) = Processed

C6_Witness ==
    /\ pc = "done"
    /\ client
    /\ NumPlaces = 2
    /\ Len(result.restaurants) = 2
    /\ \A k \in 1..2 :
          /\ ~FetchLog[k].ok
          /\ result.restaurants[k].summary = ShortContextFallback(NativeName(k)).summary
          /\ result.restaurants[k].filtered_ad_count = 0

C7_TranslatedNames ==
    {o.value.name.v : o \in {x \in TransOutcomes : TransOk(x) /\ x.value.name.t = "str"}}

(* C7: a request with language "en" that returns has every item named      *)
(* "native (translated)", the native name being that of the venue, and     *)
(* "native (native)" when the translation fails or returns no name.        *)
C7_CompositeName ==
    (pc = "done" /\ language = "en") =>
        \A k \in 1..Len(result.restaurants) :
            /\ \E shown \in C7_TranslatedNames \cup {NativeName(k)} :
                  result.restaurants[k].name = Composite(NativeName(k), shown)
            /\ ~client => result.restaurants[k].name
                              = Composite(NativeName(k), NativeName(k))

C8_WellFormedVenues ==
    \A k \in 1..NumPlaces : TitleError(places.v[k]) = ""

(* C8: when the search returns n >= 1 venues the request returns exactly   *)
(* min(n, 3) items, the i-th built from the i-th venue, whatever failed    *)
(* while a candidate was enriched.                                         *)
C8_IndependentCandidates ==
    (Finished /\ NumPlaces >= 1 /\ C8_WellFormedVenues) =>
        /\ pc = "done"
        /\ Len(result.restaurants) = Processed
        /\ \A k \in 1..Len(result.restaurants) :
              /\ result.restaurants[k].mapx = DictGet(places.v[k].mapx)
              /\ result.restaurants[k].mapy = DictGet(places.v[k].mapy)
              /\ IsSubstr(NativeName(k), result.restaurants[k].name)

C9_OptFailed ==
    ~client \/ (Len(OptimizeLog) = 1 /\ ~OptimizeLog[1].ok)

(* C9: in create_recommendations_v2 with language "en", a failed keyword   *)
(* optimisation (error, malformed answer, no model client) does not stop   *)
(* the request: the search is issued exactly once, with the prompt itself  *)
(* as the query; with language "ko" no optimisation call is made and the   *)
(* query is the prompt.                                                    *)
C9_OptimizationFallback ==
    IsV2 =>
        /\ Len(SearchLog) <= 1
        /\ Len(OptimizeLog) <= 1
        /\ pc \notin {"optimize", "search"} => Len(SearchLog) = 1
        /\ (language = "en" /\ pc # "optimize" /\ C9_OptFailed) =>
              /\ search_query = prompt
              /\ pc # "search" => SearchLog[1].arg = prompt
        /\ language = "ko" =>
              /\ OptimizeLog = <<>>
              /\ Len(SearchLog) = 1 => SearchLog[1].arg = prompt

C9_Witness ==
    /\ IsV2 /\ language = "en" /\ client
    /\ pc = "loop"
    /\ prompt = <<" ", "'", "s", "u", "'">>
    /\ Len(calls) = 2
    /\ calls[1].op = "optimize" /\ ~calls[1].ok
    /\ calls[2].op = "search_places" /\ calls[2].arg = prompt

(* C10: the external calls of a request come in a fixed order without      *)
(* retries: one place search (after the optional keyword optimisation),    *)
(* then per candidate, in provider order, one review fetch, at most one    *)
(* summarizer call, at most one translation call; a candidate's fetch is   *)
(* issued only when every earlier candidate has been assembled.            *)
C10_CallOrder ==
    /\ Len(SearchLog) <= 1
    /\ pc \notin {"optimize", "search"} => Len(SearchLog) = 1
    /\ \A i \in 1..Len(calls) :
          LET prev == IF i = 1 THEN "" ELSE calls[i - 1].op
          IN  CASE calls[i].op = "optimize" -> i = 1
                [] calls[i].op = "search_places" -> prev \in {"", "optimize"}
                [] calls[i].op = "fetch_blog_context" ->
                       prev \in {"search_places", "fetch_blog_context",
                                 "analyze_restaurant", "translate"}
                [] calls[i].op = "analyze_restaurant" -> prev = "fetch_blog_context"
                [] calls[i].op = "translate" ->
                       prev \in {"fetch_blog_context", "analyze_restaurant"}
                [] OTHER -> FALSE
    /\ Len(FetchLog) <= Processed
    /\ Len(final_list) <= Len(FetchLog)
    /\ Len(FetchLog) <= Len(final_list) + 1
    /\ \A k \in 1..Len(FetchLog) :
          FetchLog[k].arg = BlogQuery(NativeName(k), PlaceAddr(places.v[k]))
    /\ Len(CallsOf("analyze_restaurant")) <= Len(FetchLog)
    /\ Len(CallsOf("translate")) <= Len(FetchLog)
    /\ (pc = "done" /\ result.status = "returned") =>
          /\ Len(FetchLog) = Processed
          /\ Len(final_list) = Processed

C10_Witness ==
    /\ pc = "done"
    /\ Len(final_list) = 3
    /\ Len(calls) = 10
    /\ calls[9].op = "analyze_restaurant" /\ calls[10].op = "translate"
    /\ ~calls[3].ok
    /\ calls[4].op = "translate"
    /\ calls[6].op = "analyze_restaurant" /\ ~calls[6].ok
    /\ calls[7].op = "translate" /\ ~calls[7].ok
    /\ calls[8].op = "fetch_blog_context"

====
